---- MODULE Spec2Model ----
(***************************************************************************)
(* BooksPipeline (src/main.py): the bronze -> silver -> gold pipeline over *)
(* the Books, Ratings and Users tables and its four top-N rankings.        *)
(*                                                                         *)
(* A DataFrame is a sequence of rows; a row is a record of cells; a cell   *)
(* is NULL (the empty tuple) or <<v>>.  Column names with a dash are       *)
(* written with an underscore (Book-Title -> Book_Title); Publisher stands *)
(* for the Books columns the pipeline never names.                         *)
(***************************************************************************)
EXTENDS Integers, Sequences, FiniteSets, TLC

VARIABLES
    csv,            \* contents of bronze/Books.csv, Ratings.csv, Users.csv
    attrs,          \* names of the data attributes the instance holds
    books, ratings, users,                          \* bronze
    books_silver, ratings_silver, users_silver,     \* silver
    gold_books,                                     \* gold
    ret             \* outcome of the last call on the instance

vars == <<csv, attrs, books, ratings, users,
          books_silver, ratings_silver, users_silver, gold_books, ret>>

-----------------------------------------------------------------------------
(* Bounds *)

MaxRows == 4        \* rows in the three files together (aggregation runs)
MaxRowsClean == 2   \* rows in the three files together (cleaning runs)
MaxN == 3           \* largest number_of_* argument of a ranking call

-----------------------------------------------------------------------------
(* Cells and columns *)

NULL == <<>>

IsNull(c) == c = NULL

Min(a, b) == IF a < b THEN a ELSE b

Range(s) == {s[i] : i \in 1..Len(s)}

\* number of positions of s that hold x
Occurrences(s, x) == Cardinality({i \in 1..Len(s) : s[i] = x})

\* col(c) >= k and col(c) <= k under SQL's three-valued logic
Ge(c, k) == IF IsNull(c) THEN NULL ELSE <<c[1] >= k>>

Le(c, k) == IF IsNull(c) THEN NULL ELSE <<c[1] <= k>>

And3(a, b) ==
    IF a = <<FALSE>> \/ b = <<FALSE>> THEN <<FALSE>>
    ELSE IF IsNull(a) \/ IsNull(b) THEN NULL
    ELSE <<TRUE>>

-----------------------------------------------------------------------------
(* DataFrame operations used by the pipeline *)

\* DataFrame.dropna(subset=cols): drop the rows with a null in a listed column
dropna(df, cols) ==
    SelectSeq(df, LAMBDA row : \A c \in cols : ~IsNull(row[c]))

\* DataFrame.dropna(): drop the rows with a null in any column
dropna_all(df) ==
    SelectSeq(df, LAMBDA row : \A c \in DOMAIN row : ~IsNull(row[c]))

\* the values of column c, one per group, in order of first appearance
RECURSIVE GroupKeys(_, _)
GroupKeys(df, c) ==
    IF df = <<>> THEN <<>>
    ELSE LET n    == Len(df)
             rest == GroupKeys(SubSeq(df, 1, n - 1), c)
         IN  IF df[n][c] \in Range(rest) THEN rest ELSE Append(rest, df[n][c])

\* the rows of one group
GroupRows(df, c, k) == SelectSeq(df, LAMBDA row : row[c] = k)

\* count(c): the number of rows whose column c is not null
count(df, c) == Cardinality({i \in 1..Len(df) : ~IsNull(df[i][c])})

RECURSIVE SumCol(_, _)
SumCol(df, c) ==
    IF df = <<>> THEN 0
    ELSE (IF IsNull(Head(df)[c]) THEN 0 ELSE Head(df)[c][1]) + SumCol(Tail(df), c)

\* avg(c): the mean of the non-null values, kept exact as sum / n
avg(df, c) ==
    IF count(df, c) = 0 THEN NULL
    ELSE <<[sum |-> SumCol(df, c), n |-> count(df, c)]>>

\* left.join(right, on=k, how="inner"): null keys match nothing
RECURSIVE JoinRow(_, _, _)
JoinRow(l, right, k) ==
    IF right = <<>> THEN <<>>
    ELSE (IF ~IsNull(l[k]) /\ Head(right)[k] = l[k]
          THEN <<l @@ Head(right)>> ELSE <<>>) \o JoinRow(l, Tail(right), k)

RECURSIVE Join(_, _, _)
Join(left, right, k) ==
    IF left = <<>> THEN <<>>
    ELSE JoinRow(Head(left), right, k) \o Join(Tail(left), right, k)

\* desc(m) puts a before b, or leaves them unordered (nulls come last)
DescGe(a, b) == IsNull(b) \/ (~IsNull(a) /\ a[1] >= b[1])

\* orderBy(m): ascending instead of descending
OrderByAsc(df, m) ==
    {[i \in 1..Len(df) |-> df[p[i]]] :
        p \in {q \in Permutations(1..Len(df)) :
                 \A i \in 1..Len(df) : \A j \in 1..Len(df) :
                    i < j => df[q[i]][m][1] <= df[q[j]][m][1]}}

\* orderBy(desc(m)): the engine applies no secondary key, so any arrangement
\* of the rows with non-increasing m can come out of one evaluation
OrderByDesc(df, m) ==
    {[i \in 1..Len(df) |-> df[p[i]]] :
        p \in {q \in Permutations(1..Len(df)) :
                 \A i \in 1..Len(df) : \A j \in 1..Len(df) :
                    i < j => DescGe(df[q[i]][m], df[q[j]][m])}}

\* limit(n)
Limit(df, n) == SubSeq(df, 1, Min(n, Len(df)))

\* limit(n).orderBy(desc(m)): the rows are cut before they are ordered
TopN_LimitFirst(df, m, n) == OrderByDesc(Limit(df, n), m)

\* orderBy(desc(m)).limit(n).toPandas(): the possible results
TopN(df, m, n) == {Limit(s, n) : s \in OrderByDesc(df, m)}

-----------------------------------------------------------------------------
(* The stages, as functions of the DataFrames they read *)

\* books.dropna(): the subset is forgotten
CleanBooks_AnyNull(df) == dropna_all(df)

\* books.dropna(subset=["Book-Title", "Book-Author"])
CleanBooks(df) == dropna(df, {"Book_Title", "Book_Author"})

\* the lower bound is strict: rating 0 is dropped
CleanRatings_Positive(df) ==
    SelectSeq(df, LAMBDA row :
        And3(<<~IsNull(row["Book_Rating"]) /\ row["Book_Rating"][1] > 0>>,
             Le(row["Book_Rating"], 10)) = <<TRUE>>)

\* ratings.filter((col("Book-Rating") >= 0) & (col("Book-Rating") <= 10)):
\* filter keeps the rows on which the condition is true, not null
CleanRatings(df) ==
    SelectSeq(df, LAMBDA row :
        And3(Ge(row["Book_Rating"], 0), Le(row["Book_Rating"], 10)) = <<TRUE>>)

\* users.dropna()
CleanUsers(df) == dropna_all(df)

\* countDistinct("User-ID") in place of count("Book-Rating")
RatingsByISBN_DistinctUsers(rs) ==
    LET keys == GroupKeys(rs, "ISBN")
    IN  [i \in 1..Len(keys) |->
            LET g == GroupRows(rs, "ISBN", keys[i])
            IN  [ISBN         |-> keys[i],
                 rating_count |-> <<Cardinality({g[j].User_ID : j \in 1..Len(g)})>>,
                 avg_rating   |-> avg(g, "Book_Rating")]]

\* ratings_silver.groupBy("ISBN").agg(count(...), avg(...))
RatingsByISBN(rs) ==
    LET keys == GroupKeys(rs, "ISBN")
    IN  [i \in 1..Len(keys) |->
            LET g == GroupRows(rs, "ISBN", keys[i])
            IN  [ISBN         |-> keys[i],
                 rating_count |-> <<count(g, "Book_Rating")>>,
                 avg_rating   |-> avg(g, "Book_Rating")]]

\* how="left": a group without a book is kept, its book columns null
AggregateGold_LeftJoin(rs, bs) ==
    LET groups == RatingsByISBN(rs)
        RECURSIVE Rows(_)
        Rows(g) ==
            IF g = <<>> THEN <<>>
            ELSE (IF JoinRow(Head(g), bs, "ISBN") = <<>>
                  THEN <<Head(g) @@ [Book_Title |-> NULL, Book_Author |-> NULL,
                                      Publisher |-> NULL]>>
                  ELSE JoinRow(Head(g), bs, "ISBN")) \o Rows(Tail(g))
    IN  Rows(groups)

\* ... .join(books_silver, on="ISBN", how="inner")
AggregateGold(rs, bs) == Join(RatingsByISBN(rs), bs, "ISBN")

\* sum("rating_count") in place of count("rating_count")
AuthorView_Sum(gold) ==
    LET keys == GroupKeys(gold, "Book_Author")
    IN  [i \in 1..Len(keys) |->
            [Book_Author  |-> keys[i],
             rating_count |->
                <<SumCol(GroupRows(gold, "Book_Author", keys[i]), "rating_count")>>]]

\* gold_books.groupBy("Book-Author").agg(count("rating_count").alias("rating_count"))
AuthorView(gold) ==
    LET keys == GroupKeys(gold, "Book_Author")
    IN  [i \in 1..Len(keys) |->
            [Book_Author  |-> keys[i],
             rating_count |->
                <<count(GroupRows(gold, "Book_Author", keys[i]), "rating_count")>>]]

\* countDistinct("User-ID") in place of count("User-ID")
UserView_DistinctUsers(us, rs, c) ==
    LET j    == Join(us, rs, "User_ID")
        keys == GroupKeys(j, c)
    IN  [i \in 1..Len(keys) |->
            LET g == GroupRows(j, c, keys[i])
            IN  [key        |-> keys[i],
                 user_count |-> <<Cardinality({g[n].User_ID : n \in 1..Len(g)})>>]]

\* users_silver.join(ratings_silver, on="User-ID", how="inner")
\*     .groupBy(c).agg(count("User-ID").alias("user_count"))
UserView(us, rs, c) ==
    LET j    == Join(us, rs, "User_ID")
        keys == GroupKeys(j, c)
    IN  [i \in 1..Len(keys) |->
            [key        |-> keys[i],
             user_count |-> <<count(GroupRows(j, c, keys[i]), "User_ID")>>]]

LocationView(us, rs) ==
    LET v == UserView(us, rs, "Location")
    IN  [i \in 1..Len(v) |-> [Location |-> v[i].key, user_count |-> v[i].user_count]]

AgeView(us, rs) ==
    LET v == UserView(us, rs, "Age")
    IN  [i \in 1..Len(v) |-> [Age |-> v[i].key, user_count |-> v[i].user_count]]

-----------------------------------------------------------------------------
(* Outcome of a call *)

Returned(op, n, rows) == [op |-> op, n |-> n, status |-> "ok", rows |-> rows]

\* reading an attribute the instance does not hold
Raised(op, n) == [op |-> op, n |-> n, status |-> "AttributeError", rows |-> <<>>]

BronzeAttrs == {"books", "ratings", "users"}

SilverAttrs == {"books_silver", "ratings_silver", "users_silver"}

GoldAttrs == {"gold_books"}

RankOps == {"get_top_books", "get_top_authors",
            "get_top_locations_of_users_who_rated_books",
            "get_top_age_of_users_who_rated_books"}

-----------------------------------------------------------------------------
(* Operations of BooksPipeline *)

load_bronze ==
    /\ books' = csv.books
    /\ ratings' = csv.ratings
    /\ users' = csv.users
    /\ attrs' = attrs \cup BronzeAttrs
    /\ ret' = Returned("load_bronze", 0, <<>>)
    /\ UNCHANGED <<csv, books_silver, ratings_silver, users_silver, gold_books>>

transform_silver ==
    IF BronzeAttrs \subseteq attrs
    THEN /\ books_silver' = CleanBooks(books)
         /\ ratings_silver' = CleanRatings(ratings)
         /\ users_silver' = CleanUsers(users)
         /\ attrs' = attrs \cup SilverAttrs
         /\ ret' = Returned("transform_silver", 0, <<>>)
         /\ UNCHANGED <<csv, books, ratings, users, gold_books>>
    ELSE /\ ret' = Raised("transform_silver", 0)
         /\ UNCHANGED <<csv, attrs, books, ratings, users,
                        books_silver, ratings_silver, users_silver, gold_books>>

aggregate_gold ==
    IF {"ratings_silver", "books_silver"} \subseteq attrs
    THEN /\ gold_books' = AggregateGold(ratings_silver, books_silver)
         /\ attrs' = attrs \cup GoldAttrs
         /\ ret' = Returned("aggregate_gold", 0, <<>>)
         /\ UNCHANGED <<csv, books, ratings, users,
                        books_silver, ratings_silver, users_silver>>
    ELSE /\ ret' = Raised("aggregate_gold", 0)
         /\ UNCHANGED <<csv, attrs, books, ratings, users,
                        books_silver, ratings_silver, users_silver, gold_books>>

\* gold_books starts as an empty DataFrame and the call never fails
get_top_books_NoCheck(number_of_books) ==
    /\ \E out \in TopN(gold_books, "rating_count", number_of_books) :
          ret' = Returned("get_top_books", number_of_books, out)
    /\ UNCHANGED <<csv, attrs, books, ratings, users,
                   books_silver, ratings_silver, users_silver, gold_books>>

get_top_books(number_of_books) ==
    /\ IF "gold_books" \in attrs
       THEN \E out \in TopN(gold_books, "rating_count", number_of_books) :
                ret' = Returned("get_top_books", number_of_books, out)
       ELSE ret' = Raised("get_top_books", number_of_books)
    /\ UNCHANGED <<csv, attrs, books, ratings, users,
                   books_silver, ratings_silver, users_silver, gold_books>>

\* the grouped, ordered and cut DataFrame is stored back in gold_books
get_top_authors_InPlace(number_of_authors) ==
    /\ IF "gold_books" \in attrs
       THEN \E out \in TopN(AuthorView(gold_books), "rating_count", number_of_authors) :
                /\ ret' = Returned("get_top_authors", number_of_authors, out)
                /\ gold_books' = out
       ELSE /\ ret' = Raised("get_top_authors", number_of_authors)
            /\ UNCHANGED gold_books
    /\ UNCHANGED <<csv, attrs, books, ratings, users,
                   books_silver, ratings_silver, users_silver>>

get_top_authors(number_of_authors) ==
    /\ IF "gold_books" \in attrs
       THEN \E out \in TopN(AuthorView(gold_books), "rating_count", number_of_authors) :
                ret' = Returned("get_top_authors", number_of_authors, out)
       ELSE ret' = Raised("get_top_authors", number_of_authors)
    /\ UNCHANGED <<csv, attrs, books, ratings, users,
                   books_silver, ratings_silver, users_silver, gold_books>>

get_top_locations_of_users_who_rated_books(number_of_locations) ==
    /\ IF {"users_silver", "ratings_silver"} \subseteq attrs
       THEN \E out \in TopN(LocationView(users_silver, ratings_silver),
                            "user_count", number_of_locations) :
                ret' = Returned("get_top_locations_of_users_who_rated_books",
                                number_of_locations, out)
       ELSE ret' = Raised("get_top_locations_of_users_who_rated_books",
                          number_of_locations)
    /\ UNCHANGED <<csv, attrs, books, ratings, users,
                   books_silver, ratings_silver, users_silver, gold_books>>

get_top_age_of_users_who_rated_books(number_of_ages) ==
    /\ IF {"users_silver", "ratings_silver"} \subseteq attrs
       THEN \E out \in TopN(AgeView(users_silver, ratings_silver),
                            "user_count", number_of_ages) :
                ret' = Returned("get_top_age_of_users_who_rated_books",
                                number_of_ages, out)
       ELSE ret' = Raised("get_top_age_of_users_who_rated_books", number_of_ages)
    /\ UNCHANGED <<csv, attrs, books, ratings, users,
                   books_silver, ratings_silver, users_silver, gold_books>>

-----------------------------------------------------------------------------
(* File contents *)

Book(i, t, a, p) == [ISBN |-> i, Book_Title |-> t, Book_Author |-> a, Publisher |-> p]

Rating(u, i, r) == [User_ID |-> u, ISBN |-> i, Book_Rating |-> r]

User(u, l, a) == [User_ID |-> u, Location |-> l, Age |-> a]

\* the tables of k rows over the rows of U, listed in U's order
TablesOf(U, k) ==
    {[i \in 1..k |-> U[s[i]]] :
        s \in {t \in [1..k -> 1..Len(U)] : \A i \in 1..(k - 1) : t[i] <= t[i + 1]}}

\* the three files, holding at most max rows together
FilesOver(BU, RU, UU, max) ==
    UNION {UNION {UNION {
        {[books |-> b, ratings |-> r, users |-> u] :
            b \in TablesOf(BU, nb), r \in TablesOf(RU, nr), u \in TablesOf(UU, nu)} :
        nu \in 0..(max - nb - nr)} : nr \in 0..(max - nb)} : nb \in 0..max}

\* rows for the cleaning runs: every combination of null and non-null cells
CleanBookRows ==
    << Book(<<"A">>, <<"T1">>, <<"X">>, <<"P">>), Book(<<"A">>, <<"T1">>, <<"X">>, NULL),
       Book(<<"A">>, <<"T1">>, NULL, <<"P">>),    Book(<<"A">>, <<"T1">>, NULL, NULL),
       Book(<<"A">>, NULL, <<"X">>, <<"P">>),     Book(<<"A">>, NULL, <<"X">>, NULL),
       Book(<<"A">>, NULL, NULL, <<"P">>),        Book(<<"A">>, NULL, NULL, NULL) >>

CleanRatingRows ==
    << Rating(<<1>>, <<"A">>, NULL),   Rating(<<1>>, <<"A">>, <<-1>>),
       Rating(<<1>>, <<"A">>, <<0>>),  Rating(<<1>>, <<"A">>, <<5>>),
       Rating(<<1>>, <<"A">>, <<10>>), Rating(<<1>>, <<"A">>, <<11>>) >>

CleanUserRows ==
    << User(<<1>>, <<"L1">>, <<30>>), User(<<1>>, <<"L1">>, NULL),
       User(<<1>>, NULL, <<30>>),     User(NULL, <<"L1">>, <<30>>) >>

\* rows for the aggregation runs: shared and unshared ISBNs and users,
\* several books under one ISBN, and rows the cleaning drops
AggBookRows ==
    << Book(<<"A">>, <<"T1">>, <<"X">>, <<"P">>), Book(<<"A">>, <<"T2">>, <<"X">>, <<"P">>),
       Book(<<"A">>, <<"T3">>, <<"Y">>, <<"P">>), Book(<<"B">>, <<"T4">>, <<"Y">>, <<"P">>),
       Book(<<"B">>, <<"T5">>, NULL, <<"P">>) >>

AggRatingRows ==
    << Rating(<<1>>, <<"A">>, <<5>>),  Rating(<<2>>, <<"A">>, <<7>>),
       Rating(<<1>>, <<"B">>, <<10>>), Rating(<<2>>, <<"A">>, <<11>>) >>

AggUserRows ==
    << User(<<1>>, <<"L1">>, <<30>>), User(<<2>>, <<"L2">>, <<40>>),
       User(<<1>>, <<"L2">>, NULL) >>

\* successive versions of the files, for the runs in which they are rewritten
FileVersions ==
    { [books |-> <<>>, ratings |-> <<>>, users |-> <<>>],
      [books   |-> <<AggBookRows[1]>>,
       ratings |-> <<AggRatingRows[1]>>,
       users   |-> <<AggUserRows[1]>>],
      [books   |-> <<AggBookRows[1], AggBookRows[2], AggBookRows[5]>>,
       ratings |-> <<AggRatingRows[1], AggRatingRows[2], AggRatingRows[4]>>,
       users   |-> <<AggUserRows[1], AggUserRows[2]>>] }

\* the files are rewritten outside the program
RewriteFiles ==
    /\ csv' \in FileVersions \ {csv}
    /\ UNCHANGED <<attrs, books, ratings, users,
                   books_silver, ratings_silver, users_silver, gold_books, ret>>

-----------------------------------------------------------------------------
(* Specifications *)

\* BooksPipeline.__init__: no data attribute is set
Constructed ==
    /\ attrs = {}
    /\ books = <<>> /\ ratings = <<>> /\ users = <<>>
    /\ books_silver = <<>> /\ ratings_silver = <<>> /\ users_silver = <<>>
    /\ gold_books = <<>>
    /\ ret = Returned("__init__", 0, <<>>)

Init == csv \in FileVersions /\ Constructed

InitClean ==
    /\ csv \in FilesOver(CleanBookRows, CleanRatingRows, CleanUserRows, MaxRowsClean)
    /\ Constructed

InitAgg ==
    /\ csv \in FilesOver(AggBookRows, AggRatingRows, AggUserRows, MaxRows)
    /\ Constructed

Calls ==
    \/ load_bronze
    \/ transform_silver
    \/ aggregate_gold
    \/ \E n \in 1..MaxN : get_top_books(n)
    \/ \E n \in 1..MaxN : get_top_authors(n)
    \/ \E n \in 1..MaxN : get_top_locations_of_users_who_rated_books(n)
    \/ \E n \in 1..MaxN : get_top_age_of_users_who_rated_books(n)

Next == Calls \/ RewriteFiles

\* any sequence of calls, the files being rewritten at any time
Spec == Init /\ [][Next]_vars

\* any sequence of calls on fixed files
SpecClean == InitClean /\ [][Calls]_vars

SpecAgg == InitAgg /\ [][Calls]_vars

-----------------------------------------------------------------------------
(* Vocabulary of the properties *)

Top_Books == "get_top_books"

Top_Authors == "get_top_authors"

Top_Locations == "get_top_locations_of_users_who_rated_books"

Top_Ages == "get_top_age_of_users_who_rated_books"

\* the attributes a ranking operation reads
Reads(op) == IF op \in {Top_Books, Top_Authors}
             THEN GoldAttrs ELSE {"users_silver", "ratings_silver"}

\* the dataset a ranking operation orders, and its metric column
RankedDataset(op) ==
    CASE op = Top_Books     -> gold_books
      [] op = Top_Authors   -> AuthorView(gold_books)
      [] op = Top_Locations -> LocationView(users_silver, ratings_silver)
      [] op = Top_Ages      -> AgeView(users_silver, ratings_silver)

Metric(op) == IF op \in {Top_Books, Top_Authors} THEN "rating_count" ELSE "user_count"

\* every row of a occurs in b at least as often as in a
SubBag(a, b) == \A x \in Range(a) : Occurrences(a, x) <= Occurrences(b, x)

ISBNsOf(df) == {df[i].ISBN : i \in 1..Len(df)}

ValidRating(c) == ~IsNull(c) /\ c[1] >= 0 /\ c[1] <= 10

Silver == <<books_silver, ratings_silver, users_silver>>

Bronze == <<books, ratings, users>>

-----------------------------------------------------------------------------
(* C1: prerequisites of the stages and of the rankings *)

\* C1 as stated: transform_silver succeeds only after load_bronze,
\* aggregate_gold only after transform_silver, and each of the four ranking
\* operations only after aggregate_gold.
C1_RankNeedsGold ==
    /\ (ret.op = "transform_silver" /\ ret.status = "ok") => BronzeAttrs \subseteq attrs
    /\ (ret.op = "aggregate_gold" /\ ret.status = "ok") => SilverAttrs \subseteq attrs
    /\ (ret.op \in RankOps /\ ret.status = "ok") => GoldAttrs \subseteq attrs

\* C1 amended: a call returns a result exactly when the datasets it reads
\* have been produced, and raises AttributeError otherwise; get_top_books and
\* get_top_authors read gold, the two user rankings read silver only.
C1_CallNeedsWhatItReads ==
    /\ ret.op = "transform_silver" => (ret.status = "ok" <=> BronzeAttrs \subseteq attrs)
    /\ ret.op = "aggregate_gold" => (ret.status = "ok" <=> SilverAttrs \subseteq attrs)
    /\ ret.op \in RankOps => (ret.status = "ok" <=> Reads(ret.op) \subseteq attrs)
    /\ ret.status \in {"ok", "AttributeError"}

\* a user ranking has returned rows although gold was never computed
C1_Witness ==
    /\ ret.op = Top_Locations
    /\ ret.status = "ok"
    /\ ret.rows # <<>>
    /\ "gold_books" \notin attrs

-----------------------------------------------------------------------------
(* C2: silver Ratings *)

\* C2: every silver rating is in [0, 10]; a bronze row with a rating outside
\* [0, 10] or null is absent from silver, and a bronze row with a rating
\* inside [0, 10] is in silver as often as in bronze, unchanged.
C2_SilverRatings ==
    "ratings_silver" \in attrs =>
        /\ \A i \in 1..Len(ratings_silver) :
              /\ ~IsNull(ratings_silver[i].Book_Rating)
              /\ ratings_silver[i].Book_Rating[1] \in 0..10
        /\ Range(ratings_silver) \subseteq Range(ratings)
        /\ \A x \in Range(ratings) :
              Occurrences(ratings_silver, x) =
                 IF ValidRating(x.Book_Rating) THEN Occurrences(ratings, x) ELSE 0

\* a bronze row with rating 11 was dropped and a row with rating 0 was kept
C2_Witness ==
    /\ "ratings_silver" \in attrs
    /\ \E i \in 1..Len(ratings) : ratings[i].Book_Rating = <<11>>
    /\ \E i \in 1..Len(ratings_silver) : ratings_silver[i].Book_Rating = <<0>>

-----------------------------------------------------------------------------
(* C3: silver Books and silver Users *)

\* C3: every silver book has a title and an author, every bronze book that
\* has both is kept (whatever its other columns hold), and every silver user
\* has no null in any column.
C3_SilverBooksUsers ==
    "books_silver" \in attrs =>
        /\ \A i \in 1..Len(books_silver) :
              /\ ~IsNull(books_silver[i].Book_Title)
              /\ ~IsNull(books_silver[i].Book_Author)
        /\ Range(books_silver) \subseteq Range(books)
        /\ \A x \in Range(books) :
              (~IsNull(x.Book_Title) /\ ~IsNull(x.Book_Author))
                 => Occurrences(books_silver, x) = Occurrences(books, x)
        /\ \A i \in 1..Len(users_silver) :
              /\ ~IsNull(users_silver[i].User_ID)
              /\ ~IsNull(users_silver[i].Location)
              /\ ~IsNull(users_silver[i].Age)
        /\ Range(users_silver) \subseteq Range(users)

\* a book without a publisher was kept and a user with a null was dropped
C3_Witness ==
    /\ "books_silver" \in attrs
    /\ \E i \in 1..Len(books_silver) : IsNull(books_silver[i].Publisher)
    /\ Len(users_silver) < Len(users)

-----------------------------------------------------------------------------
(* C4: size of gold *)

\* C4 as stated: gold has at most as many rows as there are distinct ISBNs
\* that occur both in silver Books and in silver Ratings.
C4_GoldAtMostCommonISBNs ==
    "gold_books" \in attrs =>
        Len(gold_books)
           <= Cardinality(ISBNsOf(books_silver) \cap ISBNsOf(ratings_silver))

\* C4 amended: gold has one row per silver book whose ISBN occurs in silver
\* Ratings; that is at most the number of common ISBNs when no two silver
\* books share an ISBN.
C4_GoldOneRowPerRatedBook ==
    "gold_books" \in attrs =>
        /\ Len(gold_books) =
              Cardinality({i \in 1..Len(books_silver) :
                              books_silver[i].ISBN \in ISBNsOf(ratings_silver)})
        /\ (\A i \in 1..Len(books_silver) : \A j \in 1..Len(books_silver) :
               books_silver[i].ISBN = books_silver[j].ISBN => i = j)
              => Len(gold_books)
                    <= Cardinality(ISBNsOf(books_silver) \cap ISBNsOf(ratings_silver))

\* two silver books share a rated ISBN: gold has more rows than common ISBNs
C4_Witness ==
    /\ "gold_books" \in attrs
    /\ Len(gold_books)
          > Cardinality(ISBNsOf(books_silver) \cap ISBNsOf(ratings_silver))

-----------------------------------------------------------------------------
(* C5: rating_count *)

\* C5: in every gold row rating_count is the number of silver ratings with
\* that row's ISBN, at least 1; an ISBN with ratings and no silver book has
\* no gold row.
C5_RatingCount ==
    "gold_books" \in attrs =>
        /\ \A i \in 1..Len(gold_books) :
              /\ gold_books[i].rating_count[1] =
                    Cardinality({j \in 1..Len(ratings_silver) :
                                    ratings_silver[j].ISBN = gold_books[i].ISBN})
              /\ gold_books[i].rating_count[1] >= 1
        /\ \A k \in ISBNsOf(ratings_silver) \ ISBNsOf(books_silver) :
              k \notin ISBNsOf(gold_books)

\* a gold row counts two ratings, and a rated ISBN has no silver book
C5_Witness ==
    /\ "gold_books" \in attrs
    /\ \E i \in 1..Len(gold_books) : gold_books[i].rating_count = <<2>>
    /\ ISBNsOf(ratings_silver) \ ISBNsOf(books_silver) # {}

-----------------------------------------------------------------------------
(* C6: what a ranking returns *)

\* C6: a ranking called with n on a dataset it can read returns without
\* failing min(n, rows of the ranked dataset) rows of that dataset, in
\* non-increasing order of the metric, and no row left out has a metric
\* greater than a returned row's; on a zero-row dataset it returns no row.
C6_TopN ==
    (ret.op \in RankOps /\ Reads(ret.op) \subseteq attrs) =>
        LET D == RankedDataset(ret.op)
            m == Metric(ret.op)
        IN  /\ ret.status = "ok"
            /\ Len(ret.rows) = Min(ret.n, Len(D))
            /\ SubBag(ret.rows, D)
            /\ \A i \in 1..Len(ret.rows) : \A j \in 1..Len(ret.rows) :
                  i < j => ret.rows[i][m][1] >= ret.rows[j][m][1]
            /\ \A x \in Range(D) :
                  Occurrences(ret.rows, x) < Occurrences(D, x)
                     => \A j \in 1..Len(ret.rows) : ret.rows[j][m][1] >= x[m][1]

\* the one author returned has more gold rows than the author left out
C6_Witness ==
    /\ ret.op = Top_Authors
    /\ ret.status = "ok"
    /\ ret.n = 1
    /\ Len(ret.rows) = 1
    /\ Len(AuthorView(gold_books)) = 2
    /\ ret.rows[1].rating_count = <<2>>

-----------------------------------------------------------------------------
(* C7: rankings with n and with n + 1 *)

\* the call of this step repeats the last ranking with n + 1 on the same data
RankedAgainWithOneMore ==
    /\ ret.op \in RankOps
    /\ ret'.op = ret.op
    /\ ret.status = "ok"
    /\ ret'.status = "ok"
    /\ ret'.n = ret.n + 1
    /\ UNCHANGED <<books_silver, ratings_silver, users_silver, gold_books>>

\* C7 as stated: the rows returned with n are among the rows returned with
\* n + 1 by a separate evaluation on the same dataset.
C7_SubsetOfNext ==
    [][RankedAgainWithOneMore => SubBag(ret.rows, ret'.rows)]_vars

\* every row left out of the last result is strictly below its last row
CutOffUntied ==
    LET D == RankedDataset(ret.op)
        m == Metric(ret.op)
    IN  \A x \in Range(D) :
           Occurrences(ret.rows, x) < Occurrences(D, x)
              => /\ ret.rows # <<>>
                 /\ x[m][1] < ret.rows[Len(ret.rows)][m][1]

\* C7 amended: the metric values listed with n are the first ones listed
\* with n + 1, and the rows returned with n are among those returned with
\* n + 1 when no row left out with n ties with the last row returned.
C7_SubsetWhenCutOffUntied ==
    [][RankedAgainWithOneMore =>
          /\ Len(ret.rows) <= Len(ret'.rows)
          /\ \A i \in 1..Len(ret.rows) :
                ret'.rows[i][Metric(ret.op)] = ret.rows[i][Metric(ret.op)]
          /\ CutOffUntied => SubBag(ret.rows, ret'.rows)]_vars

\* a ranking with n = 2 returned two rows of different metric
C7_Witness ==
    /\ ret.op \in RankOps
    /\ ret.status = "ok"
    /\ ret.n = 2
    /\ Len(ret.rows) = 2
    /\ ret.rows[1][Metric(ret.op)][1] > ret.rows[2][Metric(ret.op)][1]

-----------------------------------------------------------------------------
(* C8: stage outputs *)

-----------------------------------------------------------------------------
(* C9: the metric of get_top_authors *)

-----------------------------------------------------------------------------
(* C10: user_count *)

\* the pairs of a silver user and a silver rating of that user, the user
\* having value k in column c
JoinedPairs(c, k) ==
    {p \in (1..Len(users_silver)) \X (1..Len(ratings_silver)) :
        /\ users_silver[p[1]].User_ID = ratings_silver[p[2]].User_ID
        /\ users_silver[p[1]][c] = k}

====
